---------------------------- MODULE Spec2Model ----------------------------
(***************************************************************************)
(* Model of src/src/defense.py: the allow-list check, the redactor, the    *)
(* mock scanner and the mock vulnerability tester, together with the       *)
(* process environment they read and the module global they share.         *)
(*                                                                         *)
(* A Python str is a sequence of one-character strings.  A dict is a       *)
(* function whose domain is its key set.  Mutable objects (dict, set) live *)
(* in a heap, a sequence of objects addressed by position, so that a copy  *)
(* and an alias are different things.                                      *)
(***************************************************************************)
EXTENDS Integers, Sequences, FiniteSets, TLC

VARIABLES environ, DEFAULT_SAFE_TARGETS, call, ret

vars == <<environ, DEFAULT_SAFE_TARGETS, call, ret>>

-----------------------------------------------------------------------------
(* Bounds of the exploration.                                              *)

\* Longest environment value enumerated character by character.
MaxLen == 3

\* Longest prompts list handed to the vulnerability tester.
MaxPrompts == 3

-----------------------------------------------------------------------------
(* String literals of the source and of its tests.                         *)

s_127_0_0_1 == <<"1", "2", "7", ".", "0", ".", "0", ".", "1">>
s_localhost == <<"l", "o", "c", "a", "l", "h", "o", "s", "t">>
s_colon_colon_1 == <<":", ":", "1">>
s_malicious_com == <<"m", "a", "l", "i", "c", "i", "o", "u", "s", ".", "c", "o", "m">>
s_api_key == <<"a", "p", "i", "_", "k", "e", "y">>
s_password == <<"p", "a", "s", "s", "w", "o", "r", "d">>
s_secret == <<"s", "e", "c", "r", "e", "t">>
s_token == <<"t", "o", "k", "e", "n">>
s_empty == <<>>

\* Python's None, kept apart from every str (whose elements are single characters).
None == <<"<None>">>

\* Characters str.strip() removes.
Whitespace == {" ", "\t", "\n", "\r", "\f"}

-----------------------------------------------------------------------------
(* Python built-ins used by the module.                                    *)

\* bool(x) for a str or None: `if x:` / `if not x:`.
truthy(x) == x # None /\ x # <<>>

\* Index of the first occurrence of sep in s, 0 when there is none.
find(s, sep) ==
    IF \E i \in 1..Len(s) : s[i] = sep
    THEN CHOOSE i \in 1..Len(s) : s[i] = sep /\ \A j \in 1..(i - 1) : s[j] # sep
    ELSE 0

\* s.split(sep) for a one-character sep: always at least one piece.
RECURSIVE split(_, _)
split(s, sep) ==
    LET i == find(s, sep)
    IN  IF i = 0
        THEN <<s>>
        ELSE <<SubSeq(s, 1, i - 1)>> \o split(SubSeq(s, i + 1, Len(s)), sep)

RECURSIVE lstrip(_)
lstrip(s) ==
    IF s # <<>> /\ Head(s) \in Whitespace THEN lstrip(Tail(s)) ELSE s

RECURSIVE rstrip(_)
rstrip(s) ==
    IF s # <<>> /\ s[Len(s)] \in Whitespace
    THEN rstrip(SubSeq(s, 1, Len(s) - 1))
    ELSE s

\* s.strip()
strip(s) == rstrip(lstrip(s))

\* os.environ.get(name, default)
environ_get(env, name, default) ==
    IF name \in DOMAIN env THEN env[name] ELSE default

\* d without key k (del d[k]).
dict_del(d, k) == [x \in (DOMAIN d) \ {k} |-> d[x]]

\* new_copy handing back the object itself instead of a copy of it.
new_copy_alias(heap, a) == [heap |-> heap, ref |-> a]

\* Allocation of a new object holding a copy of the object at address a:
\* data.copy() and set(DEFAULT_SAFE_TARGETS).  Yields the heap and the
\* address the expression evaluates to.

new_copy(heap, a) == [heap |-> Append(heap, heap[a]), ref |-> Len(heap) + 1]

-----------------------------------------------------------------------------
(* src/src/defense.py                                                      *)

\* [t.strip() for t in pieces]
strip_each(pieces) == [i \in 1..Len(pieces) |-> strip(pieces[i])]

\* [t.strip() for t in pieces if t.strip()]
strip_each_nonempty(pieces) ==
    SelectSeq(strip_each(pieces), LAMBDA t : truthy(t))

\* The set of the elements of a list.
elements(list) == {list[i] : i \in 1..Len(list)}

\* get_allowed_targets without the built-in defaults.
get_allowed_targets_env_only(heap, env) ==
    LET env_targets == environ_get(env, "ALLOWED_TARGETS", <<>>)
    IN  [heap |-> Append(heap, IF truthy(env_targets)
                               THEN elements(strip_each_nonempty(split(env_targets, ",")))
                               ELSE {}),
         ref |-> Len(heap) + 1]

\* get_allowed_targets without the strip of the entries.
get_allowed_targets_unstripped(heap, env) ==
    LET allowed == new_copy(heap, 1)
        env_targets == environ_get(env, "ALLOWED_TARGETS", <<>>)
        pieces == split(env_targets, ",")
    IN  IF truthy(env_targets)
        THEN [heap |-> [allowed.heap EXCEPT ![allowed.ref] =
                            @ \cup elements(SelectSeq(pieces, LAMBDA t : truthy(strip(t))))],
              ref |-> allowed.ref]
        ELSE allowed

\* _get_allowed_targets(): heap[1] is the module global DEFAULT_SAFE_TARGETS.
\* Yields the heap after the call and the address of the returned set.
get_allowed_targets(heap, env) ==
    LET allowed == new_copy(heap, 1)
        env_targets == environ_get(env, "ALLOWED_TARGETS", <<>>)
    IN  IF truthy(env_targets)
        THEN [heap |-> [allowed.heap EXCEPT ![allowed.ref] =
                            @ \cup elements(strip_each_nonempty(split(env_targets, ",")))],
              ref |-> allowed.ref]
        ELSE allowed

\* is_allowed_target(target)
is_allowed_target(env, target) ==
    LET allowed_targets == environ_get(env, "ALLOWED_TARGETS", <<>>)
        allowed_list == strip_each(split(allowed_targets, ","))
    IN  IF ~truthy(allowed_targets)
        THEN FALSE
        ELSE \E i \in 1..Len(allowed_list) : allowed_list[i] = target

\* sensitive_keys_of ignoring SENSITIVE_KEYS.
sensitive_keys_default_only(env) == <<s_api_key, s_password, s_secret, s_token>>

\* The sensitive key list of redact_sensitive.
sensitive_keys_of(env) ==
    LET env_sensitive_keys == environ_get(env, "SENSITIVE_KEYS", <<>>)
    IN  IF truthy(env_sensitive_keys)
        THEN strip_each_nonempty(split(env_sensitive_keys, ","))
        ELSE <<s_api_key, s_password, s_secret, s_token>>

\* delete_keys leaving the loop after its first deletion.
RECURSIVE delete_keys_first_only(_, _, _)
delete_keys_first_only(heap, redacted, keys) ==
    IF keys = <<>>
    THEN heap
    ELSE IF Head(keys) \in DOMAIN heap[redacted]
         THEN [heap EXCEPT ![redacted] = dict_del(@, Head(keys))]
         ELSE delete_keys_first_only(heap, redacted, Tail(keys))

\* for key in sensitive_keys: if key in redacted: del redacted[key]
RECURSIVE delete_keys(_, _, _)
delete_keys(heap, redacted, keys) ==
    IF keys = <<>>
    THEN heap
    ELSE LET key == Head(keys)
             h == IF key \in DOMAIN heap[redacted]
                  THEN [heap EXCEPT ![redacted] = dict_del(@, key)]
                  ELSE heap
         IN  delete_keys(h, redacted, Tail(keys))

\* redact_sensitive(data): data is the address of the caller's dict.
\* Yields the heap after the call and the address of the returned dict.
redact_sensitive(heap, data, env) ==
    LET redacted == new_copy(heap, data)
    IN  [heap |-> delete_keys(redacted.heap, redacted.ref, sensitive_keys_of(env)),
         ref |-> redacted.ref]

\* stub_scan_network(target): yields the heap after the call and the result.
stub_scan_network(heap, env, target) ==
    LET allowed_targets == get_allowed_targets(heap, env)
    IN  [heap |-> allowed_targets.heap,
         ret |-> IF target \notin allowed_targets.heap[allowed_targets.ref]
                 THEN [error |-> "Target not in allowed list"]
                 ELSE [target |-> target,
                       open_ports |-> <<80, 443, 22>>,
                       status |-> "scan_complete"]]

\* mock_test_api_vulnerabilities testing `api_key is None` only.
mock_test_api_vulnerabilities_none_only(url, api_key, prompts) ==
    IF api_key = None
    THEN [error |-> "API key is required"]
    ELSE [url |-> url,
          vulnerabilities |-> <<>>,
          leaks |-> <<>>,
          prompts_tested |-> Len(prompts),
          status |-> "completed"]

\* mock_test_api_vulnerabilities(url, api_key, prompts)
mock_test_api_vulnerabilities(url, api_key, prompts) ==
    IF ~truthy(api_key)
    THEN [error |-> "API key is required"]
    ELSE [url |-> url,
          vulnerabilities |-> <<>>,
          leaks |-> <<>>,
          prompts_tested |-> Len(prompts),
          status |-> "completed"]

-----------------------------------------------------------------------------
(* Inputs.                                                                 *)

\* Characters of the enumerated environment values.
Alphabet == {"a", ",", " "}

Strings(n) == UNION {[1..k -> Alphabet] : k \in 0..n}

\* Values given to ALLOWED_TARGETS: every short string, the value of
\* test_is_allowed_target_exact_match, and one naming a default with padding.
TargetEnvValues ==
    Strings(MaxLen)
    \cup {s_127_0_0_1 \o <<",">> \o s_localhost,
          <<" ">> \o s_colon_colon_1 \o <<" ", ",", "a">>}

\* Values given to SENSITIVE_KEYS.
KeyEnvValues ==
    Strings(MaxLen)
    \cup {s_api_key, <<" ">> \o s_token \o <<" ", ",", ",", "a">>}

\* Targets handed to is_allowed_target and stub_scan_network.
Targets ==
    {s_empty, <<"a">>, <<"A">>, <<" ", "a">>, <<"a", "a">>, <<"a", " ", "a">>,
     s_127_0_0_1, s_localhost, s_colon_colon_1, s_malicious_com}

\* Keys of the mappings handed to redact_sensitive.
Keys == {s_empty, <<"a">>, s_api_key, s_password, s_secret, s_token}

\* The value stored under each key: the key's own value, distinct per key.
ValueOf(k) == <<"value of", k>>

Mappings == {[k \in S |-> ValueOf(k)] : S \in SUBSET Keys}

Urls == {"http://fake-url", ""}

ApiKeys == {None, s_empty, <<"s", "k", "-", "x">>}

Prompts == UNION {[1..n -> {"test"}] : n \in 0..MaxPrompts}

-----------------------------------------------------------------------------
(* State: the process environment, the module global, and the last call    *)
(* with what it returned.                                                  *)

NoCall == [op |-> "none"]

Init ==
    /\ environ = [n \in {} |-> <<>>]
    /\ DEFAULT_SAFE_TARGETS = {s_127_0_0_1, s_localhost, s_colon_colon_1}
    /\ call = NoCall
    /\ ret = None

\* os.environ[name] = value (monkeypatch.setenv)
setenv(name, value) ==
    /\ environ' = [n \in DOMAIN environ \cup {name} |->
                      IF n = name THEN value ELSE environ[n]]
    /\ call' = NoCall
    /\ ret' = None
    /\ UNCHANGED DEFAULT_SAFE_TARGETS

\* del os.environ[name] (monkeypatch.delenv)
delenv(name) ==
    /\ name \in DOMAIN environ
    /\ environ' = [n \in DOMAIN environ \ {name} |-> environ[n]]
    /\ call' = NoCall
    /\ ret' = None
    /\ UNCHANGED DEFAULT_SAFE_TARGETS

SetAllowedTargets == \E v \in TargetEnvValues : setenv("ALLOWED_TARGETS", v)

UnsetAllowedTargets == delenv("ALLOWED_TARGETS")

SetSensitiveKeys == \E v \in KeyEnvValues : setenv("SENSITIVE_KEYS", v)

UnsetSensitiveKeys == delenv("SENSITIVE_KEYS")

CallIsAllowedTarget ==
    \E t \in Targets :
        /\ call' = [op |-> "is_allowed_target", target |-> t]
        /\ ret' = is_allowed_target(environ, t)
        /\ UNCHANGED <<environ, DEFAULT_SAFE_TARGETS>>

CallStubScanNetwork ==
    \E t \in Targets :
        LET r == stub_scan_network(<<DEFAULT_SAFE_TARGETS>>, environ, t)
        IN  /\ call' = [op |-> "stub_scan_network", target |-> t]
            /\ ret' = r.ret
            /\ DEFAULT_SAFE_TARGETS' = r.heap[1]
            /\ UNCHANGED environ

\* The caller's dict is at address 1; call.data is it before the call and
\* call.data_after is it after the call.  call.first is the argument of the
\* first call when this one was handed that call's result.
Redact(d, again, first) ==
    LET r == redact_sensitive(<<d>>, 1, environ)
    IN  /\ call' = [op |-> "redact_sensitive", data |-> d,
                    data_after |-> r.heap[1], again |-> again, first |-> first]
        /\ ret' = r.heap[r.ref]
        /\ UNCHANGED <<environ, DEFAULT_SAFE_TARGETS>>

CallRedactSensitive == \E d \in Mappings : Redact(d, FALSE, d)

\* redact_sensitive(redact_sensitive(d)): the previous result is the argument.
CallRedactSensitiveAgain ==
    /\ call.op = "redact_sensitive"
    /\ ~call.again
    /\ Redact(ret, TRUE, call.data)

CallMockTestApiVulnerabilities ==
    \E url \in Urls, api_key \in ApiKeys, prompts \in Prompts :
        /\ call' = [op |-> "mock_test_api_vulnerabilities", url |-> url,
                    api_key |-> api_key, prompts |-> prompts]
        /\ ret' = mock_test_api_vulnerabilities(url, api_key, prompts)
        /\ UNCHANGED <<environ, DEFAULT_SAFE_TARGETS>>

Calls ==
    \/ CallIsAllowedTarget
    \/ CallStubScanNetwork
    \/ CallRedactSensitive
    \/ CallRedactSensitiveAgain
    \/ CallMockTestApiVulnerabilities

Next ==
    \/ SetAllowedTargets
    \/ UnsetAllowedTargets
    \/ SetSensitiveKeys
    \/ UnsetSensitiveKeys
    \/ CallIsAllowedTarget
    \/ CallStubScanNetwork
    \/ CallRedactSensitive
    \/ CallRedactSensitiveAgain
    \/ CallMockTestApiVulnerabilities

Spec == Init /\ [][Next]_vars

\* The calls under every value of ALLOWED_TARGETS, SENSITIVE_KEYS left unset.
NextTargets ==
    \/ SetAllowedTargets
    \/ UnsetAllowedTargets
    \/ CallIsAllowedTarget
    \/ CallStubScanNetwork
    \/ CallRedactSensitive
    \/ CallRedactSensitiveAgain
    \/ CallMockTestApiVulnerabilities

SpecTargets == Init /\ [][NextTargets]_vars

\* The calls under every value of SENSITIVE_KEYS, ALLOWED_TARGETS left unset.
NextKeys ==
    \/ SetSensitiveKeys
    \/ UnsetSensitiveKeys
    \/ CallIsAllowedTarget
    \/ CallStubScanNetwork
    \/ CallRedactSensitive
    \/ CallRedactSensitiveAgain
    \/ CallMockTestApiVulnerabilities

SpecKeys == Init /\ [][NextKeys]_vars

-----------------------------------------------------------------------------
(* What the properties speak of, stated without the program's operators.   *)

DefaultNames == {s_127_0_0_1, s_localhost, s_colon_colon_1}

DefaultSensitive == {s_api_key, s_password, s_secret, s_token}

\* The value of an environment variable, the empty string when it is unset.
ValueOrEmpty(name) == IF name \in DOMAIN environ THEN environ[name] ELSE <<>>

\* The variable is set and not empty.
SetNonEmpty(name) == name \in DOMAIN environ /\ environ[name] # <<>>

\* The comma-separated pieces of s: its maximal comma-free stretches.
Pieces(s) ==
    {SubSeq(s, i, j) : <<i, j>> \in
        {p \in (1..(Len(s) + 1)) \X (0..Len(s)) :
            /\ p[2] >= p[1] - 1
            /\ (p[1] = 1 \/ s[p[1] - 1] = ",")
            /\ (p[2] = Len(s) \/ s[p[2] + 1] = ",")
            /\ \A k \in p[1]..p[2] : s[k] # ","}}

\* x without its leading and trailing whitespace.
Trim(x) ==
    LET ink == {k \in 1..Len(x) : x[k] \notin Whitespace}
    IN  IF ink = {}
        THEN <<>>
        ELSE SubSeq(x, CHOOSE k \in ink : \A m \in ink : k <= m,
                       CHOOSE k \in ink : \A m \in ink : k >= m)

\* Every piece trimmed, the blank ones included.
TrimmedPieces(s) == {Trim(x) : x \in Pieces(s)}

\* The entries of a comma-separated value: its trimmed pieces that are not empty.
Entries(s) == TrimmedPieces(s) \ {<<>>}

ScanError == [error |-> "Target not in allowed list"]

ScanSuccess(t) ==
    [target |-> t, open_ports |-> <<80, 443, 22>>, status |-> "scan_complete"]

IsTargetCall == call.op \in {"is_allowed_target", "stub_scan_network"}

\* The last call was a target call and accepted its target.
Accepted ==
    \/ call.op = "is_allowed_target" /\ ret = TRUE
    \/ call.op = "stub_scan_network" /\ "error" \notin DOMAIN ret

\* The last call was a target call and rejected its target.
Rejected ==
    \/ call.op = "is_allowed_target" /\ ret = FALSE
    \/ call.op = "stub_scan_network" /\ ret = ScanError

\* The sensitive key set in force.
EffectiveSensitive ==
    IF SetNonEmpty("SENSITIVE_KEYS")
    THEN Entries(environ["SENSITIVE_KEYS"])
    ELSE DefaultSensitive

-----------------------------------------------------------------------------
(* Properties.                                                             *)

\* C1: is_allowed_target(t) is true exactly when ALLOWED_TARGETS is set and
\* not empty and t is one of its entries (trimmed, compared exactly); it is
\* false for every t, the built-in defaults included, when the variable is
\* unset or empty.
C1_AllowedIffEntry ==
    call.op = "is_allowed_target" =>
        (ret <=> /\ SetNonEmpty("ALLOWED_TARGETS")
                 /\ call.target \in Entries(environ["ALLOWED_TARGETS"]))

\* C2: stub_scan_network(t) returns exactly the error mapping when t is
\* neither a built-in default nor an entry of ALLOWED_TARGETS, and exactly
\* the success mapping for t otherwise; in the default environment
\* 127.0.0.1 scans and malicious.com is refused.
C2_ScanResult ==
    call.op = "stub_scan_network" =>
        /\ ret = IF /\ call.target \notin DefaultNames
                    /\ call.target \notin Entries(ValueOrEmpty("ALLOWED_TARGETS"))
                 THEN ScanError
                 ELSE ScanSuccess(call.target)
        /\ (DOMAIN environ = {} /\ call.target = s_127_0_0_1 =>
                /\ ret.open_ports = <<80, 443, 22>>
                /\ "error" \notin DOMAIN ret)
        /\ (DOMAIN environ = {} /\ call.target = s_malicious_com => ret = ScanError)

\* A scan of a target that is no default succeeded on the variable's entry.
C2_Witness ==
    /\ call.op = "stub_scan_network"
    /\ call.target \notin DefaultNames
    /\ ret = ScanSuccess(call.target)

\* C3: redact_sensitive(d) holds no key of the sensitive set in force, every
\* other key of d with its value, and nothing else.
C3_RedactExact ==
    call.op = "redact_sensitive" =>
        /\ DOMAIN ret \cap EffectiveSensitive = {}
        /\ \A k \in DOMAIN call.data \ EffectiveSensitive :
               k \in DOMAIN ret /\ ret[k] = call.data[k]
        /\ DOMAIN ret \subseteq DOMAIN call.data

\* Under a SENSITIVE_KEYS of its own, a call removed a key, kept another, and
\* one sensitive key was absent from the mapping.
C3_Witness ==
    /\ call.op = "redact_sensitive"
    /\ SetNonEmpty("SENSITIVE_KEYS")
    /\ DOMAIN ret # DOMAIN call.data
    /\ DOMAIN ret # {}
    /\ EffectiveSensitive \ DOMAIN call.data # {}

\* C4: mock_test_api_vulnerabilities returns exactly the error mapping when
\* api_key is None or empty, and otherwise exactly the result mapping with
\* prompts_tested the number of prompts; never a mix of the two.
C4_MockResult ==
    call.op = "mock_test_api_vulnerabilities" =>
        /\ (call.api_key = None \/ call.api_key = <<>>) =>
               ret = [error |-> "API key is required"]
        /\ ~(call.api_key = None \/ call.api_key = <<>>) =>
               /\ DOMAIN ret = {"url", "vulnerabilities", "leaks",
                                "prompts_tested", "status"}
               /\ ret.url = call.url
               /\ ret.vulnerabilities = <<>>
               /\ ret.leaks = <<>>
               /\ ret.prompts_tested = Cardinality(DOMAIN call.prompts)
               /\ ret.status = "completed"
        /\ "error" \in DOMAIN ret => DOMAIN ret = {"error"}

\* A call with a key and three prompts counted them.
C4_Witness ==
    /\ call.op = "mock_test_api_vulnerabilities"
    /\ call.api_key \notin {None, <<>>}
    /\ Len(call.prompts) = 3
    /\ ret.prompts_tested = 3

\* C5: a call changes neither the environment nor, for redact_sensitive, the
\* caller's mapping.
C5_CallsChangeNothing ==
    [][call'.op # "none" =>
          /\ environ' = environ
          /\ (call'.op = "redact_sensitive" => call'.data_after = call'.data)]_vars

\* A call removed a sensitive key from its result and the caller's mapping
\* still has it.
C5_Witness ==
    /\ call.op = "redact_sensitive"
    /\ DOMAIN ret # DOMAIN call.data
    /\ call.data_after = call.data
    /\ SetNonEmpty("SENSITIVE_KEYS")

\* C6: redact_sensitive applied to its own result, under the same
\* SENSITIVE_KEYS, returns that result.
C6_Idempotent ==
    (call.op = "redact_sensitive" /\ call.again) => ret = call.data

\* The second application, after a first that removed two keys or more and
\* kept one.
C6_Witness ==
    /\ call.op = "redact_sensitive"
    /\ call.again
    /\ Cardinality(DOMAIN call.first \ DOMAIN call.data) >= 2
    /\ DOMAIN ret # {}

\* C7: no call leaves anything behind for a later one: the module's default
\* set is what it was at import, a target that is an entry of ALLOWED_TARGETS
\* now is accepted, and a target that is no piece of it now (and, for the
\* scanner, no default) is rejected.
C7_NoCaching ==
    /\ DEFAULT_SAFE_TARGETS = DefaultNames
    /\ IsTargetCall =>
           /\ call.target \in Entries(ValueOrEmpty("ALLOWED_TARGETS")) => Accepted
           /\ ( /\ call.target \notin TrimmedPieces(ValueOrEmpty("ALLOWED_TARGETS"))
                /\ (call.op = "stub_scan_network" => call.target \notin DefaultNames) )
                  => Rejected

\* The scanner added the variable's entries to its set and accepted one of
\* them, and the module's default set is untouched.
C7_Witness ==
    /\ call.op = "stub_scan_network"
    /\ call.target \in Entries(ValueOrEmpty("ALLOWED_TARGETS")) \ DefaultNames
    /\ Accepted
    /\ DEFAULT_SAFE_TARGETS = DefaultNames

\* C8 as stated: stub_scan_network(t) succeeds exactly when
\* is_allowed_target(t) is true.
C8_ScanIffAllowed ==
    /\ call.op = "stub_scan_network" =>
           (ret = ScanSuccess(call.target) <=> is_allowed_target(environ, call.target))
    /\ call.op = "stub_scan_network" =>
           (ret = ScanError <=> ~is_allowed_target(environ, call.target))

\* C8 amended: stub_scan_network(t) succeeds exactly when t is a built-in
\* default, or t is not empty and is_allowed_target(t) is true; it returns
\* the error mapping otherwise.
C8_ScanIffDefaultOrAllowed ==
    call.op = "stub_scan_network" =>
        LET ok == \/ call.target \in DefaultNames
                  \/ call.target # <<>> /\ is_allowed_target(environ, call.target)
        IN  /\ ret = ScanSuccess(call.target) <=> ok
            /\ ret = ScanError <=> ~ok

\* A default scanned although is_allowed_target refuses it.
C8_Witness ==
    /\ call.op = "stub_scan_network"
    /\ call.target \in DefaultNames
    /\ ret = ScanSuccess(call.target)
    /\ ~is_allowed_target(environ, call.target)

\* C9: the empty string is never an allowed target, whatever stray commas or
\* blank entries ALLOWED_TARGETS holds, and the empty key is never a
\* sensitive key, whatever SENSITIVE_KEYS holds.
C9_EmptyTokensFiltered ==
    /\ (call.op = "is_allowed_target" /\ call.target = <<>>) => ret = FALSE
    /\ (call.op = "stub_scan_network" /\ call.target = <<>>) => ret = ScanError
    /\ (call.op = "redact_sensitive" /\ <<>> \in DOMAIN call.data) =>
           <<>> \in DOMAIN ret

=============================================================================
